---- MODULE Spec2Model ----
(***************************************************************************)
(* A model of runtime/stack_map.cc: the variable-width integer codec       *)
(* (LoadAt / StoreAt), the StackMap field accessors built on it, the       *)
(* record-size computation, and the Dex register map resolution.           *)
(*                                                                         *)
(* Memory is a function from byte offsets to bytes (0..255).  A uint32_t   *)
(* is represented by the 32-bit two's-complement integer with the same bit *)
(* pattern (TLC's integers are 32 bits wide): 0 .. 2^31-1 stand for        *)
(* themselves and 0xFFFFFFFF is -1, as in the source's `return -1`.        *)
(* \div and % round towards minus infinity, so (v \div 2^(8i)) % 256 is    *)
(* byte i of the pattern for every such v.  Conversions to uint16_t and    *)
(* uint8_t are written out as reductions modulo 2^16 and 2^8.              *)
(*                                                                         *)
(* DCHECKs are compiled in only in debug builds.  kIsDebugBuild is chosen  *)
(* at start-up; in a debug build a failing DCHECK aborts the process       *)
(* (failure names the check, and no further step is taken), in a release   *)
(* build the check is not evaluated and execution goes on.                 *)
(***************************************************************************)
EXTENDS Integers, Sequences, FiniteSets

VARIABLES
  kIsDebugBuild,  \* build kind: TRUE when DCHECKs are compiled in
  failure,        \* "none", or the DCHECK that aborted the process
  phase,          \* position of the driver of each specification
  info,           \* the CodeInfo header: field widths, sizes, maxima
  this_stack_map, \* index of the record the StackMap object views
  memory,         \* the bytes the accessors work on
  last_store,     \* the most recent store call (arguments, memory before)
  last_load,      \* the most recent load / getter call and its result
  stored,         \* per field of the record: the value most recently stored
  nops,           \* number of mutator calls made so far
  dex_register_map, \* a variable map: live bits and stored catalog indices
  catalog,        \* the location catalog: sequence of (kind, value)
  trace           \* what the last resolution / Dump call touched

vars == <<kIsDebugBuild, failure, phase, info, this_stack_map, memory, last_store, last_load,
          stored, nops, dex_register_map, catalog, trace>>

----------------------------------------------------------------------------
(* Bounds of the model. *)

\* Number of bytes of the region the bare codec is exercised on.
RegionSize == 5

\* Largest stack mask size, in bytes, of the tables considered.
MaxStackMaskSize == 1

\* Number of records of a table.
NumRecords == 2

\* Largest number of Dex registers (variables) of a variable map.
MaxDexRegisters == 5

\* Number of writes made to the records of a table.
MaxOps == 2

----------------------------------------------------------------------------
(* Integer helpers. *)

Pow2(n) == 2 ^ n

\* The all-ones bit pattern of w bytes as a uint32_t (0 for w = 0, and
\* 0xFFFFFFFF, that is -1, for w = 4).
AllOnes(w) == IF w >= 4 THEN -1 ELSE Pow2(8 * w) - 1

\* Whether the uint32_t v is representable in w bytes: v < 2^(8w).
Representable(v, w) == w >= 4 \/ (0 <= v /\ v < Pow2(8 * w))

Byte == 0 .. 255

\* uint32_t(-1): the value LoadAt returns for a maximum pattern, and the
\* value of the two "absent" constants.
kNoDexRegisterMap == -1
kNoInlineInfo == -1
kNoLocationEntryIndex == -1

Low16Bits(value) == value % 65536

High16Bits(value) == (value \div 65536) % 65536

----------------------------------------------------------------------------
(* MemoryRegion: little-endian unaligned access to a byte array. *)

\* region.LoadUnaligned<T>(offset) with sizeof(T) = size.
LoadUnaligned(region, size, offset) ==
  IF size = 1 THEN region[offset]
  ELSE IF size = 2 THEN region[offset] + 256 * region[offset + 1]
  ELSE LET top == region[offset + 3]
       IN region[offset] + 256 * region[offset + 1] + 65536 * region[offset + 2]
          + 16777216 * (IF top >= 128 THEN top - 256 ELSE top)

\* region.StoreUnaligned<T>(offset, value) with sizeof(T) = size: the value is
\* first converted to T (reduced modulo 2^(8*size)), then written byte by byte.
StoreUnaligned(region, size, offset, value) ==
  [i \in DOMAIN region |->
     IF i >= offset /\ i < offset + size
     THEN (value \div Pow2(8 * (i - offset))) % 256
     ELSE region[i]]

\* region.Subregion(start, size).LoadBit(bit_offset): bit (bit_offset % 8) of
\* byte (bit_offset / 8) of the subregion.
LoadBit(region, start, bit_offset) ==
  (region[start + (bit_offset \div 8)] \div Pow2(bit_offset % 8)) % 2

\* region.Subregion(start, size).StoreBit(bit_offset, value).
StoreBit(region, start, bit_offset, value) ==
  LET at == start + (bit_offset \div 8)
      old == LoadBit(region, start, bit_offset)
  IN [region EXCEPT ![at] = @ + (value - old) * Pow2(bit_offset % 8)]

----------------------------------------------------------------------------
(* The variable-width integer codec. *)

\* The DCHECK of LoadAt that fails for these arguments, or "none".
LoadAtCheck(number_of_bytes, check_max) ==
  IF number_of_bytes = 0 /\ check_max THEN "LoadAt: DCHECK(!check_max)"
  ELSE IF number_of_bytes > 4 THEN "LoadAt: DCHECK_EQ(number_of_bytes, 4u)"
  ELSE "none"

\* A LoadAt that assembles the 3-byte value with the high byte shifted by 8.
LoadAtBadShift(region, number_of_bytes, offset, check_max) ==
  IF number_of_bytes = 0 THEN 0
  ELSE IF number_of_bytes = 3
  THEN LET low == LoadUnaligned(region, 2, offset)
           high == LoadUnaligned(region, 1, offset + 2)
           value == high * 256 + low
       IN IF check_max /\ value = 16777215 THEN -1 ELSE value
  ELSE IF number_of_bytes >= 4 THEN LoadUnaligned(region, 4, offset)
  ELSE LET value == LoadUnaligned(region, number_of_bytes, offset)
       IN IF check_max /\ value = AllOnes(number_of_bytes) THEN -1 ELSE value

\* The value LoadAt returns.
LoadAt(region, number_of_bytes, offset, check_max) ==
  IF number_of_bytes = 0 THEN 0
  ELSE IF number_of_bytes = 1
  THEN LET value == LoadUnaligned(region, 1, offset)
       IN IF check_max /\ value = 255 THEN -1 ELSE value
  ELSE IF number_of_bytes = 2
  THEN LET value == LoadUnaligned(region, 2, offset)
       IN IF check_max /\ value = 65535 THEN -1 ELSE value
  ELSE IF number_of_bytes = 3
  THEN LET low == LoadUnaligned(region, 2, offset)
           high == LoadUnaligned(region, 1, offset + 2)
           value == high * 65536 + low
       IN IF check_max /\ value = 16777215 THEN -1 ELSE value
  ELSE LoadUnaligned(region, 4, offset)

\* The DCHECK of StoreAt that fails for these arguments, or "none".
StoreAtCheck(number_of_bytes, value) ==
  IF number_of_bytes = 0 /\ value # 0 THEN "StoreAt: DCHECK_EQ(value, 0u)"
  ELSE IF number_of_bytes > 4 THEN "StoreAt: DCHECK_EQ(number_of_bytes, 4u)"
  ELSE "none"

\* A StoreAt that pads a 3-byte value to 4 bytes.
StoreAtPadded(region, number_of_bytes, offset, value) ==
  IF number_of_bytes = 0 THEN region
  ELSE IF number_of_bytes = 3 THEN StoreUnaligned(region, 4, offset, value)
  ELSE StoreUnaligned(region, number_of_bytes, offset, value)

\* The region after StoreAt.
StoreAt(region, number_of_bytes, offset, value) ==
  IF number_of_bytes = 0 THEN region
  ELSE IF number_of_bytes = 1 THEN StoreUnaligned(region, 1, offset, value)
  ELSE IF number_of_bytes = 2 THEN StoreUnaligned(region, 2, offset, value)
  ELSE IF number_of_bytes = 3
  THEN StoreUnaligned(StoreUnaligned(region, 2, offset, Low16Bits(value)),
                      1, offset + 2, High16Bits(value))
  ELSE StoreUnaligned(region, 4, offset, value)

----------------------------------------------------------------------------
(* CodeInfo: the table header.  info holds the sizes and maxima the table  *)
(* was built from, the five field widths and the stack mask size.          *)

\* CodeInfo::EncodingSizeInBytes(max_element): the smallest width in 0..4
\* whose range covers max_element; 0 only for max_element = 0.
EncodingSizeInBytes(max_element) ==
  IF max_element = 0 THEN 0
  ELSE IF max_element < 256 THEN 1
  ELSE IF max_element < 65536 THEN 2
  ELSE IF max_element < 16777216 THEN 3
  ELSE 4

NumberOfBytesForInlineInfo(code_info) == code_info.number_of_bytes_for_inline_info
NumberOfBytesForDexRegisterMap(code_info) == code_info.number_of_bytes_for_dex_register_map
NumberOfBytesForDexPc(code_info) == code_info.number_of_bytes_for_dex_pc
NumberOfBytesForNativePc(code_info) == code_info.number_of_bytes_for_native_pc
NumberOfBytesForRegisterMask(code_info) == code_info.number_of_bytes_for_register_mask
GetStackMaskSize(code_info) == code_info.stack_mask_size
HasInlineInfo(code_info) == code_info.has_inline_info

\* Field offsets within a record: stack mask, inline-info offset, variable-map
\* offset, instruction offset, native offset, register mask, each at the
\* accumulated width of the fields before it.
ComputeStackMapStackMaskOffset(code_info) == 0
ComputeStackMapInlineInfoOffset(code_info) ==
  ComputeStackMapStackMaskOffset(code_info) + GetStackMaskSize(code_info)
ComputeStackMapDexRegisterMapOffset(code_info) ==
  ComputeStackMapInlineInfoOffset(code_info) + NumberOfBytesForInlineInfo(code_info)
ComputeStackMapDexPcOffset(code_info) ==
  ComputeStackMapDexRegisterMapOffset(code_info)
    + NumberOfBytesForDexRegisterMap(code_info)
ComputeStackMapNativePcOffset(code_info) ==
  ComputeStackMapDexPcOffset(code_info) + NumberOfBytesForDexPc(code_info)
ComputeStackMapRegisterMaskOffset(code_info) ==
  ComputeStackMapNativePcOffset(code_info) + NumberOfBytesForNativePc(code_info)

\* A record size that leaves the register mask out of the sum.
ComputeStackMapSizeInternalNoMask(stack_mask_size, number_of_bytes_for_inline_info, number_of_bytes_for_dex_map, number_of_bytes_for_dex_pc, number_of_bytes_for_native_pc, number_of_bytes_for_register_mask) ==
  stack_mask_size
    + number_of_bytes_for_inline_info
    + number_of_bytes_for_dex_map
    + number_of_bytes_for_dex_pc
    + number_of_bytes_for_native_pc

ComputeStackMapSizeInternal(stack_mask_size, number_of_bytes_for_inline_info, number_of_bytes_for_dex_map, number_of_bytes_for_dex_pc, number_of_bytes_for_native_pc, number_of_bytes_for_register_mask) ==
  stack_mask_size
    + number_of_bytes_for_inline_info
    + number_of_bytes_for_dex_map
    + number_of_bytes_for_dex_pc
    + number_of_bytes_for_native_pc
    + number_of_bytes_for_register_mask

\* The width argument ComputeStackMapSize passes for the inline-info offset.
InlineInfoEncodingSize(inline_info_size, dex_register_map_size) ==
  IF inline_info_size = 0
  THEN 0
  ELSE EncodingSizeInBytes(inline_info_size + dex_register_map_size + 1)

\* A width for the variable-map offset sized for the largest real offset, with
\* no pattern kept for kNoDexRegisterMap.
DexRegisterMapEncodingSizeNoSentinel(dex_register_map_size) ==
  IF dex_register_map_size = 0 THEN 1
  ELSE EncodingSizeInBytes(dex_register_map_size - 1)

\* The width argument ComputeStackMapSize passes for the variable-map offset.
DexRegisterMapEncodingSize(dex_register_map_size) ==
  EncodingSizeInBytes(dex_register_map_size + 1)

ComputeStackMapSize(stack_mask_size, inline_info_size, dex_register_map_size, dex_pc_max, native_pc_max, register_mask_max) ==
  ComputeStackMapSizeInternal(
    stack_mask_size,
    InlineInfoEncodingSize(inline_info_size, dex_register_map_size),
    DexRegisterMapEncodingSize(dex_register_map_size),
    EncodingSizeInBytes(dex_pc_max),
    EncodingSizeInBytes(native_pc_max),
    EncodingSizeInBytes(register_mask_max))

\* The location catalog of the tables.
LocationCatalog ==
  << [kind |-> "kInRegister", value |-> 1],
     [kind |-> "kInStack", value |-> 4],
     [kind |-> "kConstant", value |-> 7] >>

\* The header of a table built from these sizes and maxima: the widths are
\* the ones ComputeStackMapSize sizes the records with.
CodeInfo(stack_mask_size, inline_info_size, dex_register_map_size, dex_pc_max, native_pc_max, register_mask_max) ==
  [ stack_mask_size |-> stack_mask_size,
    inline_info_size |-> inline_info_size,
    dex_register_map_size |-> dex_register_map_size,
    dex_pc_max |-> dex_pc_max,
    native_pc_max |-> native_pc_max,
    register_mask_max |-> register_mask_max,
    has_inline_info |-> inline_info_size # 0,
    catalog |-> LocationCatalog,
    number_of_bytes_for_inline_info |->
      InlineInfoEncodingSize(inline_info_size, dex_register_map_size),
    number_of_bytes_for_dex_register_map |->
      DexRegisterMapEncodingSize(dex_register_map_size),
    number_of_bytes_for_dex_pc |-> EncodingSizeInBytes(dex_pc_max),
    number_of_bytes_for_native_pc |-> EncodingSizeInBytes(native_pc_max),
    number_of_bytes_for_register_mask |-> EncodingSizeInBytes(register_mask_max),
    stack_map_size |->
      ComputeStackMapSize(stack_mask_size, inline_info_size,
                          dex_register_map_size, dex_pc_max, native_pc_max,
                          register_mask_max) ]

\* CodeInfo::StackMapSize(): the record size, from the header's widths.
StackMapSize(code_info) ==
  ComputeStackMapSizeInternal(GetStackMaskSize(code_info),
                              NumberOfBytesForInlineInfo(code_info),
                              NumberOfBytesForDexRegisterMap(code_info),
                              NumberOfBytesForDexPc(code_info),
                              NumberOfBytesForNativePc(code_info),
                              NumberOfBytesForRegisterMask(code_info))

\* CodeInfo::GetStackMapAt(i): record i is the StackMapSize() bytes that start
\* at i * StackMapSize() in the record table.  A StackMap is modelled by the
\* offset of its region_ in the table's memory.
GetStackMapAt(code_info, i) == i * StackMapSize(code_info)

----------------------------------------------------------------------------
(* StackMap: the field accessors of a record.  stack_map is the start of   *)
(* the record's region_ in region (the table's memory).                    *)

GetDexPc(region, stack_map, code_info) ==
  LoadAt(region, NumberOfBytesForDexPc(code_info),
         stack_map + ComputeStackMapDexPcOffset(code_info), FALSE)

SetDexPc(region, stack_map, code_info, dex_pc) ==
  StoreAt(region, NumberOfBytesForDexPc(code_info),
          stack_map + ComputeStackMapDexPcOffset(code_info), dex_pc)

GetNativePcOffset(region, stack_map, code_info) ==
  LoadAt(region, NumberOfBytesForNativePc(code_info),
         stack_map + ComputeStackMapNativePcOffset(code_info), FALSE)

\* A SetNativePcOffset that stores at the offset of the dex pc.
SetNativePcOffsetAtDexPc(region, stack_map, code_info, native_pc_offset) ==
  StoreAt(region, NumberOfBytesForNativePc(code_info),
          stack_map + ComputeStackMapDexPcOffset(code_info), native_pc_offset)

SetNativePcOffset(region, stack_map, code_info, native_pc_offset) ==
  StoreAt(region, NumberOfBytesForNativePc(code_info),
          stack_map + ComputeStackMapNativePcOffset(code_info), native_pc_offset)

\* A GetDexRegisterMapOffset that does not ask for the sentinel check.
GetDexRegisterMapOffsetNoCheckMax(region, record, code_info) ==
  LoadAt(region, NumberOfBytesForDexRegisterMap(code_info),
         record + ComputeStackMapDexRegisterMapOffset(code_info), FALSE)

GetDexRegisterMapOffset(region, stack_map, code_info) ==
  LoadAt(region, NumberOfBytesForDexRegisterMap(code_info),
         stack_map + ComputeStackMapDexRegisterMapOffset(code_info), TRUE)

SetDexRegisterMapOffset(region, stack_map, code_info, offset) ==
  StoreAt(region, NumberOfBytesForDexRegisterMap(code_info),
          stack_map + ComputeStackMapDexRegisterMapOffset(code_info), offset)

\* A GetInlineDescriptorOffset without the early return.
GetInlineDescriptorOffsetNoGuard(region, stack_map, code_info) ==
  LoadAt(region, NumberOfBytesForInlineInfo(code_info),
         stack_map + ComputeStackMapInlineInfoOffset(code_info), TRUE)

GetInlineDescriptorOffset(region, stack_map, code_info) ==
  IF ~HasInlineInfo(code_info) THEN kNoInlineInfo
  ELSE LoadAt(region, NumberOfBytesForInlineInfo(code_info),
              stack_map + ComputeStackMapInlineInfoOffset(code_info), TRUE)

SetInlineDescriptorOffset(region, stack_map, code_info, offset) ==
  StoreAt(region, NumberOfBytesForInlineInfo(code_info),
          stack_map + ComputeStackMapInlineInfoOffset(code_info), offset)

GetRegisterMask(region, stack_map, code_info) ==
  LoadAt(region, NumberOfBytesForRegisterMask(code_info),
         stack_map + ComputeStackMapRegisterMaskOffset(code_info), FALSE)

SetRegisterMask(region, stack_map, code_info, mask) ==
  StoreAt(region, NumberOfBytesForRegisterMask(code_info),
          stack_map + ComputeStackMapRegisterMaskOffset(code_info), mask)

\* The stack mask of a record: the subregion (start, size) of the table.
GetStackMask(stack_map, code_info) ==
  [ start |-> stack_map + ComputeStackMapStackMaskOffset(code_info),
    size |-> GetStackMaskSize(code_info) ]

\* The names of the five integer fields, and per field: width, offset in the
\* record, whether its getter checks the sentinel, getter, setter.
Fields == {"inline_info", "dex_register_map", "dex_pc", "native_pc", "register_mask"}

FieldWidth(code_info, field) ==
  CASE field = "inline_info" -> NumberOfBytesForInlineInfo(code_info)
    [] field = "dex_register_map" -> NumberOfBytesForDexRegisterMap(code_info)
    [] field = "dex_pc" -> NumberOfBytesForDexPc(code_info)
    [] field = "native_pc" -> NumberOfBytesForNativePc(code_info)
    [] field = "register_mask" -> NumberOfBytesForRegisterMask(code_info)

FieldOffset(code_info, field) ==
  CASE field = "inline_info" -> ComputeStackMapInlineInfoOffset(code_info)
    [] field = "dex_register_map" -> ComputeStackMapDexRegisterMapOffset(code_info)
    [] field = "dex_pc" -> ComputeStackMapDexPcOffset(code_info)
    [] field = "native_pc" -> ComputeStackMapNativePcOffset(code_info)
    [] field = "register_mask" -> ComputeStackMapRegisterMaskOffset(code_info)

Get(region, stack_map, code_info, field) ==
  CASE field = "inline_info" -> GetInlineDescriptorOffset(region, stack_map, code_info)
    [] field = "dex_register_map" -> GetDexRegisterMapOffset(region, stack_map, code_info)
    [] field = "dex_pc" -> GetDexPc(region, stack_map, code_info)
    [] field = "native_pc" -> GetNativePcOffset(region, stack_map, code_info)
    [] field = "register_mask" -> GetRegisterMask(region, stack_map, code_info)

Set(region, stack_map, code_info, field, value) ==
  CASE field = "inline_info" ->
         SetInlineDescriptorOffset(region, stack_map, code_info, value)
    [] field = "dex_register_map" ->
         SetDexRegisterMapOffset(region, stack_map, code_info, value)
    [] field = "dex_pc" -> SetDexPc(region, stack_map, code_info, value)
    [] field = "native_pc" -> SetNativePcOffset(region, stack_map, code_info, value)
    [] field = "register_mask" -> SetRegisterMask(region, stack_map, code_info, value)

\* The DCHECK that fails in a getter, or "none": the one of LoadAt, which
\* GetInlineDescriptorOffset does not reach on a table without inline info.
GetCheck(code_info, field) ==
  CASE field = "inline_info" ->
         IF ~HasInlineInfo(code_info) THEN "none"
         ELSE LoadAtCheck(NumberOfBytesForInlineInfo(code_info), TRUE)
    [] field = "dex_register_map" ->
         LoadAtCheck(NumberOfBytesForDexRegisterMap(code_info), TRUE)
    [] OTHER -> LoadAtCheck(FieldWidth(code_info, field), FALSE)

\* The DCHECK that fails in a setter, or "none": SetInlineDescriptorOffset
\* checks HasInlineInfo() first, then every setter runs the one of StoreAt.
SetCheck(code_info, field, value) ==
  IF field = "inline_info" /\ ~HasInlineInfo(code_info)
  THEN "SetInlineDescriptorOffset: DCHECK(info.HasInlineInfo())"
  ELSE StoreAtCheck(FieldWidth(code_info, field), value)

----------------------------------------------------------------------------
(* DexRegisterLocationCatalog and DexRegisterMap.  A catalog is a sequence *)
(* of locations (kind, value), entry i at position i + 1.  A variable map  *)
(* holds one live bit per variable number and, for the live variables only *)
(* and in ascending variable number, one catalog index.                    *)

\* DexRegisterLocation::None().
NoLocation == [kind |-> "kNone", value |-> 0]

GetDexRegisterLocationCatalog(code_info) == code_info.catalog

GetNumberOfDexRegisterLocationCatalogEntries(code_info) == Len(code_info.catalog)

\* DexRegisterLocationCatalog::GetDexRegisterLocation(index): the location,
\* and the set of catalog entries read to produce it.
CatalogGetDexRegisterLocation(location_catalog, location_catalog_entry_index) ==
  IF location_catalog_entry_index = kNoLocationEntryIndex
  THEN [location |-> NoLocation, entries_read |-> {}]
  ELSE [location |-> location_catalog[location_catalog_entry_index + 1],
        entries_read |-> {location_catalog_entry_index}]

\* DexRegisterLocationCatalog::GetLocationInternalKind(index).
CatalogGetLocationInternalKind(location_catalog, location_catalog_entry_index) ==
  IF location_catalog_entry_index = kNoLocationEntryIndex
  THEN [kind |-> NoLocation.kind, entries_read |-> {}]
  ELSE [kind |-> location_catalog[location_catalog_entry_index + 1].kind,
        entries_read |-> {location_catalog_entry_index}]

IsDexRegisterLive(map, dex_register_number) == map.live[dex_register_number + 1]

\* The ordinal of a live variable's stored field: the number of live bits at
\* smaller variable numbers.
GetIndexInDexRegisterMap(map, dex_register_number) ==
  Cardinality({r \in 0 .. dex_register_number - 1 : IsDexRegisterLive(map, r)})

GetLocationCatalogEntryIndex(map, dex_register_number, number_of_dex_registers, number_of_location_catalog_entries) ==
  IF ~IsDexRegisterLive(map, dex_register_number)
  THEN kNoLocationEntryIndex
  ELSE map.entries[GetIndexInDexRegisterMap(map, dex_register_number) + 1]

GetLocationInternalKind(map, dex_register_number, number_of_dex_registers, code_info) ==
  LET dex_register_location_catalog == GetDexRegisterLocationCatalog(code_info)
      location_catalog_entry_index ==
        GetLocationCatalogEntryIndex(
          map, dex_register_number, number_of_dex_registers,
          GetNumberOfDexRegisterLocationCatalogEntries(code_info))
  IN CatalogGetLocationInternalKind(dex_register_location_catalog,
                                    location_catalog_entry_index)

\* A GetDexRegisterLocation that takes the variable number for the catalog
\* index.
GetDexRegisterLocationDirect(map, dex_register_number, number_of_dex_registers, code_info) ==
  IF dex_register_number < GetNumberOfDexRegisterLocationCatalogEntries(code_info)
  THEN CatalogGetDexRegisterLocation(GetDexRegisterLocationCatalog(code_info),
                                     dex_register_number)
  ELSE [location |-> NoLocation, entries_read |-> {dex_register_number}]

GetDexRegisterLocation(map, dex_register_number, number_of_dex_registers, code_info) ==
  LET dex_register_location_catalog == GetDexRegisterLocationCatalog(code_info)
      location_catalog_entry_index ==
        GetLocationCatalogEntryIndex(
          map, dex_register_number, number_of_dex_registers,
          GetNumberOfDexRegisterLocationCatalogEntries(code_info))
  IN CatalogGetDexRegisterLocation(dex_register_location_catalog,
                                   location_catalog_entry_index)

\* DexRegisterMap::Dump: the lines printed, one per live variable, each with
\* the variable number, the catalog index resolved and the location.
RECURSIVE DumpRegisters(_, _, _, _)
DumpRegisters(map, code_info, number_of_dex_registers, j) ==
  IF j >= number_of_dex_registers THEN <<>>
  ELSE (IF IsDexRegisterLive(map, j)
        THEN << [dex_register_num |-> j,
                 location_catalog_entry_index |->
                   GetLocationCatalogEntryIndex(
                     map, j, number_of_dex_registers,
                     GetNumberOfDexRegisterLocationCatalogEntries(code_info)),
                 location |->
                   GetDexRegisterLocation(map, j, number_of_dex_registers,
                                          code_info).location] >>
        ELSE <<>>)
       \o DumpRegisters(map, code_info, number_of_dex_registers, j + 1)

DexRegisterMapDump(map, code_info, number_of_dex_registers) ==
  DumpRegisters(map, code_info, number_of_dex_registers, 0)

----------------------------------------------------------------------------
(* The calls a record accessor makes to the codec, and StackMap::Dump.     *)

OffsetFields == {"dex_register_map", "inline_info"}

\* The LoadAt calls (number_of_bytes, check_max) a getter makes.
GetLoadAtCalls(code_info, field) ==
  IF field = "inline_info" /\ ~HasInlineInfo(code_info) THEN {}
  ELSE {[number_of_bytes |-> FieldWidth(code_info, field),
         check_max |-> field \in OffsetFields]}

\* The StoreAt calls (number_of_bytes, value) a setter makes: none when the
\* DCHECK of SetInlineDescriptorOffset has aborted a debug build.
SetStoreAtCalls(code_info, field, value, is_debug_build) ==
  IF is_debug_build /\ field = "inline_info" /\ ~HasInlineInfo(code_info) THEN {}
  ELSE {[number_of_bytes |-> FieldWidth(code_info, field), value |-> value]}

\* StackMap::HasDexRegisterMap.
HasDexRegisterMap(region, stack_map, code_info) ==
  GetDexRegisterMapOffset(region, stack_map, code_info) # kNoDexRegisterMap

\* The getters StackMap::Dump calls, in call order.
DumpGetters ==
  <<"native_pc", "dex_pc", "native_pc", "dex_register_map", "inline_info",
    "register_mask", "dex_register_map">>

\* The first DCHECK that fails in the getters StackMap::Dump calls, or "none".
StackMapDumpCheck(code_info) ==
  LET failing == {i \in DOMAIN DumpGetters : GetCheck(code_info, DumpGetters[i]) # "none"}
  IN IF failing = {} THEN "none"
     ELSE GetCheck(code_info,
                   DumpGetters[CHOOSE i \in failing : \A j \in failing : i <= j])

\* A StackMap::Dump that prints the variable map of every record.
StackMapDumpEveryMap(region, stack_map, code_info, number_of_dex_registers, map) ==
  [ native_pc_offset |-> GetNativePcOffset(region, stack_map, code_info),
    dex_pc |-> GetDexPc(region, stack_map, code_info),
    dex_register_map_offset |-> GetDexRegisterMapOffset(region, stack_map, code_info),
    inline_info_offset |-> GetInlineDescriptorOffset(region, stack_map, code_info),
    register_mask |-> GetRegisterMask(region, stack_map, code_info),
    stack_mask |->
      LET stack_mask == GetStackMask(stack_map, code_info)
          e == 8 * stack_mask.size
      IN [i \in 1 .. e |-> LoadBit(region, stack_mask.start, e - (i - 1) - 1)],
    map_resolved |-> TRUE,
    registers |-> DexRegisterMapDump(map, code_info, number_of_dex_registers),
    loads |-> UNION {GetLoadAtCalls(code_info, DumpGetters[i]) : i \in DOMAIN DumpGetters} ]

\* StackMap::Dump: the values printed, whether the variable map was resolved
\* (GetDexRegisterMapOf; map is the variable map the record's offset leads
\* to), the lines DexRegisterMap::Dump printed, and the LoadAt calls made.
StackMapDump(region, stack_map, code_info, number_of_dex_registers, map) ==
  [ native_pc_offset |-> GetNativePcOffset(region, stack_map, code_info),
    dex_pc |-> GetDexPc(region, stack_map, code_info),
    dex_register_map_offset |-> GetDexRegisterMapOffset(region, stack_map, code_info),
    inline_info_offset |-> GetInlineDescriptorOffset(region, stack_map, code_info),
    register_mask |-> GetRegisterMask(region, stack_map, code_info),
    stack_mask |->
      LET stack_mask == GetStackMask(stack_map, code_info)
          e == 8 * stack_mask.size
      IN [i \in 1 .. e |-> LoadBit(region, stack_mask.start, e - (i - 1) - 1)],
    map_resolved |-> HasDexRegisterMap(region, stack_map, code_info),
    registers |->
      IF HasDexRegisterMap(region, stack_map, code_info)
      THEN DexRegisterMapDump(map, code_info, number_of_dex_registers)
      ELSE <<>>,
    loads |-> UNION {GetLoadAtCalls(code_info, DumpGetters[i]) : i \in DOMAIN DumpGetters} ]

----------------------------------------------------------------------------
(* Values shared by the specifications. *)

NoInfo == [stack_mask_size |-> 0]
NoStore == [op |-> "none", record |-> 0, field |-> "none",
            number_of_bytes |-> 0, offset |-> 0, value |-> 0, before |-> <<>>]
NoLoad == [op |-> "none", record |-> 0, field |-> "none",
           number_of_bytes |-> 0, offset |-> 0, check_max |-> FALSE, result |-> 0]
NoMap == [live |-> <<>>, entries |-> <<>>]
NoTrace == [op |-> "none"]

----------------------------------------------------------------------------
(* SpecCodec: LoadAt and StoreAt called directly on a small region, with   *)
(* every width, every in-bounds offset and boundary values of every width. *)

\* Initial contents of the region: all zero, all ones, and a mixed pattern
\* in which runs of 0xFF of length 2 are separated by another byte.
CodecRegions ==
  { [i \in 0 .. RegionSize - 1 |-> 0],
    [i \in 0 .. RegionSize - 1 |-> 255],
    [i \in 0 .. RegionSize - 1 |-> IF i % 3 = 2 THEN 127 ELSE 255] }

\* uint32_t arguments: the boundaries of every width, values with 0xFF in
\* some bytes only, and 0xFFFFFFFF (-1), 0xFFFFFFFE (-2), 0x80000000.
CodecValues ==
  { 0, 1, 254, 255, 256, 65279, 65534, 65535, 65536, 11259375, 16711935,
    16777214, 16777215, 16777216, 305419896, 2147483647, -2147483647 - 1,
    -2, -1 }

InitCodec ==
  /\ kIsDebugBuild \in BOOLEAN
  /\ failure = "none"
  /\ phase = "codec"
  /\ info = NoInfo
  /\ this_stack_map = 0
  /\ memory \in CodecRegions
  /\ last_store = NoStore
  /\ last_load = NoLoad
  /\ stored = <<>>
  /\ nops = 0
  /\ dex_register_map = NoMap
  /\ catalog = <<>>
  /\ trace = NoTrace

\* One call StoreAt(region, number_of_bytes, offset, value).
CodecStoreAt ==
  \E number_of_bytes \in 0 .. 4, value \in CodecValues :
    \E offset \in 0 .. RegionSize - number_of_bytes :
      /\ phase = "codec"
      /\ failure = "none"
      /\ last_store.op = "none"
      /\ IF kIsDebugBuild /\ StoreAtCheck(number_of_bytes, value) # "none"
         THEN /\ failure' = StoreAtCheck(number_of_bytes, value)
              /\ UNCHANGED <<memory, last_store, last_load>>
         ELSE /\ memory' = StoreAt(memory, number_of_bytes, offset, value)
              /\ last_store' = [op |-> "StoreAt", record |-> 0, field |-> "none",
                                number_of_bytes |-> number_of_bytes,
                                offset |-> offset, value |-> value,
                                before |-> memory]
              /\ last_load' = NoLoad
              /\ UNCHANGED failure
      /\ UNCHANGED <<kIsDebugBuild, phase, info, this_stack_map, stored, nops,
                     dex_register_map, catalog, trace>>

\* One call LoadAt(region, number_of_bytes, offset, check_max).
CodecLoadAt ==
  \E number_of_bytes \in 0 .. 4, check_max \in BOOLEAN :
    \E offset \in 0 .. RegionSize - number_of_bytes :
      /\ phase = "codec"
      /\ failure = "none"
      /\ IF kIsDebugBuild /\ LoadAtCheck(number_of_bytes, check_max) # "none"
         THEN /\ failure' = LoadAtCheck(number_of_bytes, check_max)
              /\ UNCHANGED last_load
         ELSE /\ last_load' = [op |-> "LoadAt", record |-> 0, field |-> "none",
                               number_of_bytes |-> number_of_bytes,
                               offset |-> offset, check_max |-> check_max,
                               result |-> LoadAt(memory, number_of_bytes,
                                                 offset, check_max)]
              /\ UNCHANGED failure
      /\ UNCHANGED <<kIsDebugBuild, phase, info, this_stack_map, memory, last_store, stored,
                     nops, dex_register_map, catalog, trace>>

NextCodec == CodecStoreAt \/ CodecLoadAt

SpecCodec == InitCodec /\ [][NextCodec]_vars

\* The last load read back the field the last store wrote.
LoadedWhatWasStored ==
  /\ last_store.op = "StoreAt"
  /\ last_load.op = "LoadAt"
  /\ last_load.number_of_bytes = last_store.number_of_bytes
  /\ last_load.offset = last_store.offset

\* C1: for every width w in 0..4, every offset and every value v representable
\* in w bytes (and different from the all-ones pattern of w bytes when
\* check_max is set), LoadAt after StoreAt returns exactly v.
RoundTrip ==
  (/\ LoadedWhatWasStored
   /\ Representable(last_store.value, last_store.number_of_bytes)
   /\ (last_load.check_max
         => last_store.value # AllOnes(last_store.number_of_bytes)))
    => last_load.result = last_store.value

\* A 3-byte value with distinct bytes was stored at a non-zero offset and read
\* back unchanged with the sentinel check on.
RoundTripWitness ==
  /\ LoadedWhatWasStored
  /\ last_store.number_of_bytes = 3
  /\ last_store.offset = 1
  /\ last_store.value = 11259375
  /\ last_load.check_max
  /\ last_load.result = 11259375

\* The bytes [offset, offset + number_of_bytes) of the region are all 0xFF.
AllBytesFF(region, number_of_bytes, offset) ==
  \A i \in offset .. offset + number_of_bytes - 1 : region[i] = 255

\* C2: for w in 1..4, LoadAt with check_max returns 0xFFFFFFFF exactly when
\* the w stored bytes are all 0xFF; StoreAt of 0xFFFFFFFF writes exactly w
\* bytes of 0xFF; and a load with check_max after it returns 0xFFFFFFFF.
SentinelEncoding ==
  /\ (last_load.op = "LoadAt" /\ last_load.check_max
        /\ last_load.number_of_bytes >= 1)
       => (last_load.result = -1
             <=> AllBytesFF(memory, last_load.number_of_bytes, last_load.offset))
  /\ (last_store.op = "StoreAt" /\ last_store.value = -1
        /\ last_store.number_of_bytes >= 1)
       => \A i \in DOMAIN memory :
            memory[i] = IF /\ i >= last_store.offset
                           /\ i < last_store.offset + last_store.number_of_bytes
                        THEN 255 ELSE last_store.before[i]
  /\ (LoadedWhatWasStored /\ last_store.value = -1 /\ last_load.check_max
        /\ last_store.number_of_bytes >= 1)
       => last_load.result = -1

\* 0xFFFFFFFF was stored at width 3 over zeroes, leaving a zero byte after the
\* field, and read back as absent.
SentinelEncodingWitness ==
  /\ LoadedWhatWasStored
  /\ last_store.value = -1
  /\ last_store.number_of_bytes = 3
  /\ last_store.offset = 1
  /\ last_store.before[1] = 0
  /\ memory[4] = 0
  /\ last_load.check_max
  /\ last_load.result = -1

----------------------------------------------------------------------------
(* SpecSize: a table is sized by StackMap::ComputeStackMapSize from sizes  *)
(* and maxima at the boundaries of every width; then real offsets are      *)
(* written to and read from the two offset fields of a record.             *)

StackMaskSizes == 0 .. MaxStackMaskSize
InlineInfoSizes == {0, 1, 2}
DexRegisterMapSizes ==
  {0, 1, 254, 255, 256, 65534, 65535, 65536, 16777214, 16777215, 16777216}
DexPcMaxima == {0, 1, 255, 256, 65535, 65536, 16777215, 16777216}
NativePcMaxima == {0, 256, 16777216}
RegisterMaskMaxima == {1, 65536, 2147483647}

\* Offsets tried as field values: the all-ones pattern of 1, 2 and 3 bytes
\* and their neighbours.
OffsetSamples ==
  {0, 1, 254, 255, 256, 65534, 65535, 65536, 16777214, 16777215}

\* The real offsets a field can hold: variable maps start in
\* [0, dex_register_map_size), inline-info blocks in
\* [0, dex_register_map_size + inline_info_size) when there is inline info.
RealOffsetLimit(code_info, field) ==
  CASE field = "dex_register_map" -> code_info.dex_register_map_size
    [] field = "inline_info" ->
         IF code_info.inline_info_size = 0 THEN 0
         ELSE code_info.dex_register_map_size + code_info.inline_info_size

RealOffsets(code_info, field) ==
  {offset \in OffsetSamples : offset < RealOffsetLimit(code_info, field)}

InitSize ==
  /\ kIsDebugBuild \in BOOLEAN
  /\ failure = "none"
  /\ phase = "inputs"
  /\ info \in [ stack_mask_size : StackMaskSizes,
                inline_info_size : InlineInfoSizes,
                dex_register_map_size : DexRegisterMapSizes,
                dex_pc_max : DexPcMaxima,
                native_pc_max : NativePcMaxima,
                register_mask_max : RegisterMaskMaxima ]
  /\ this_stack_map = 0
  /\ memory = <<>>
  /\ last_store = NoStore
  /\ last_load = NoLoad
  /\ stored = <<>>
  /\ nops = 0
  /\ dex_register_map = NoMap
  /\ catalog = <<>>
  /\ trace = NoTrace

\* The encoder sizes the table (StackMap::ComputeStackMapSize) and allocates
\* one zeroed record.
SizeTable ==
  /\ phase = "inputs"
  /\ info' = CodeInfo(info.stack_mask_size, info.inline_info_size,
                      info.dex_register_map_size, info.dex_pc_max,
                      info.native_pc_max, info.register_mask_max)
  /\ memory' = [i \in 0 .. info'.stack_map_size - 1 |-> 0]
  /\ phase' = "sized"
  /\ UNCHANGED <<kIsDebugBuild, failure, this_stack_map, last_store, last_load,
                 stored, nops, dex_register_map, catalog, trace>>

\* The values the encoder may pass to the setter of an offset field: the real
\* offsets, and the absent sentinel.  On a table without inline info the
\* inline-info field has no real offset; 0 and the sentinel are tried.
OffsetValues(code_info, field) ==
  IF field = "inline_info" /\ ~HasInlineInfo(code_info)
  THEN {0, kNoInlineInfo}
  ELSE RealOffsets(code_info, field) \cup {kNoDexRegisterMap}

\* SetDexRegisterMapOffset or SetInlineDescriptorOffset is called on the
\* record.  In a debug build a failing DCHECK aborts before anything is
\* written.
SizeSetOffset ==
  /\ phase = "sized"
  /\ failure = "none"
  /\ last_store.op = "none"
  /\ \E field \in OffsetFields :
    \E offset \in OffsetValues(info, field) :
      /\ last_store' = [op |-> "Set", record |-> 0, field |-> field,
                        number_of_bytes |-> FieldWidth(info, field),
                        offset |-> FieldOffset(info, field),
                        value |-> offset, before |-> memory]
      /\ IF kIsDebugBuild /\ SetCheck(info, field, offset) # "none"
         THEN /\ failure' = SetCheck(info, field, offset)
              /\ UNCHANGED <<memory, last_load>>
         ELSE /\ memory' = Set(memory, GetStackMapAt(info, 0), info, field, offset)
              /\ last_load' = NoLoad
              /\ UNCHANGED failure
      /\ UNCHANGED <<kIsDebugBuild, phase, info, this_stack_map, stored, nops,
                     dex_register_map, catalog, trace>>

\* GetDexRegisterMapOffset or GetInlineDescriptorOffset is called on the
\* record.
SizeGetOffset ==
  \E field \in OffsetFields :
    /\ phase = "sized"
    /\ failure = "none"
    /\ last_load' = [op |-> "Get", record |-> 0, field |-> field,
                     number_of_bytes |-> FieldWidth(info, field),
                     offset |-> FieldOffset(info, field),
                     check_max |-> TRUE,
                     result |-> Get(memory, GetStackMapAt(info, 0), info, field)]
    /\ failure' = IF kIsDebugBuild THEN GetCheck(info, field) ELSE "none"
    /\ UNCHANGED <<kIsDebugBuild, phase, info, this_stack_map, memory, last_store,
                   stored, nops, dex_register_map, catalog, trace>>

NextSize == SizeTable \/ SizeSetOffset \/ SizeGetOffset

SpecSize == InitSize /\ [][NextSize]_vars

\* Whether width w covers the values 0 .. max of a field without sentinel.
CoversMaximum(w, max) == w >= 4 \/ max < Pow2(8 * w)

\* Whether width w covers the real offsets [0, limit) and keeps the all-ones
\* pattern of w bytes free for the sentinel.
CoversOffsets(w, limit) == w >= 4 \/ (w >= 1 /\ limit - 1 < AllOnes(w))

\* The smallest width for a field without sentinel.
MinimalWidth(max) ==
  CHOOSE w \in 0 .. 4 :
    CoversMaximum(w, max) /\ \A u \in 0 .. w - 1 : ~CoversMaximum(u, max)

\* The smallest width for an offset field with sentinel.
MinimalOffsetWidth(limit) ==
  CHOOSE w \in 0 .. 4 :
    CoversOffsets(w, limit) /\ \A u \in 0 .. w - 1 : ~CoversOffsets(u, limit)

\* C3: the width chosen for each of the five fields is the smallest one that
\* covers the field's true maximum (offsets in [0, dex_register_map_size),
\* resp. [0, dex_register_map_size + inline_info_size), with the all-ones
\* pattern kept free for the two offset fields); width 0 only for a field
\* whose maximum is 0 and that needs no sentinel.
MinimalWidthSelection ==
  phase = "sized" =>
    /\ NumberOfBytesForDexPc(info) = MinimalWidth(info.dex_pc_max)
    /\ NumberOfBytesForNativePc(info) = MinimalWidth(info.native_pc_max)
    /\ NumberOfBytesForRegisterMask(info) = MinimalWidth(info.register_mask_max)
    /\ NumberOfBytesForDexRegisterMap(info)
         = MinimalOffsetWidth(info.dex_register_map_size)
    /\ NumberOfBytesForInlineInfo(info)
         = IF info.inline_info_size = 0 THEN 0
           ELSE MinimalOffsetWidth(info.dex_register_map_size
                                     + info.inline_info_size)

\* C4: no real offset equals the all-ones pattern of the width chosen for its
\* field, and a real offset written to a record is read back as itself, never
\* as absent.
NoSentinelCollision ==
  phase = "sized" =>
    /\ \A field \in OffsetFields : \A offset \in RealOffsets(info, field) :
         offset # AllOnes(FieldWidth(info, field))
    /\ (/\ last_store.op = "Set"
        /\ last_store.value \in RealOffsets(info, last_store.field)
        /\ last_load.op = "Get"
        /\ last_load.field = last_store.field)
         => /\ last_load.result = last_store.value
            /\ last_load.result # kNoDexRegisterMap
            /\ last_load.result # kNoInlineInfo

\* The offset 255 of a 256-byte variable-map region was written at width 2 and
\* read back, and so was the offset 65535 of an inline-info block.
NoSentinelCollisionWitness ==
  /\ phase = "sized"
  /\ info.dex_register_map_size = 256
  /\ last_store.op = "Set"
  /\ last_store.field = "dex_register_map"
  /\ last_store.value = 255
  /\ last_store.number_of_bytes = 2
  /\ last_load.op = "Get"
  /\ last_load.field = "dex_register_map"
  /\ last_load.result = 255

\* The six fields of a record in layout order, with width and offset.
RecordLayout(code_info) ==
  << [offset |-> ComputeStackMapStackMaskOffset(code_info),
      width |-> GetStackMaskSize(code_info)],
     [offset |-> ComputeStackMapInlineInfoOffset(code_info),
      width |-> NumberOfBytesForInlineInfo(code_info)],
     [offset |-> ComputeStackMapDexRegisterMapOffset(code_info),
      width |-> NumberOfBytesForDexRegisterMap(code_info)],
     [offset |-> ComputeStackMapDexPcOffset(code_info),
      width |-> NumberOfBytesForDexPc(code_info)],
     [offset |-> ComputeStackMapNativePcOffset(code_info),
      width |-> NumberOfBytesForNativePc(code_info)],
     [offset |-> ComputeStackMapRegisterMaskOffset(code_info),
      width |-> NumberOfBytesForRegisterMask(code_info)] >>

\* C5: the record size is the sum of the stack mask size and the five field
\* widths; the six fields, in layout order at accumulated offsets, partition
\* [0, R); record i starts at i * R, and records do not overlap.
FixedRecordLayout ==
  phase = "sized" =>
    LET R == info.stack_map_size
        layout == RecordLayout(info)
    IN /\ R = info.stack_mask_size
              + info.number_of_bytes_for_inline_info
              + info.number_of_bytes_for_dex_register_map
              + info.number_of_bytes_for_dex_pc
              + info.number_of_bytes_for_native_pc
              + info.number_of_bytes_for_register_mask
       /\ StackMapSize(info) = R
       /\ layout[1].offset = 0
       /\ \A k \in 1 .. 5 : layout[k + 1].offset = layout[k].offset + layout[k].width
       /\ layout[6].offset + layout[6].width = R
       /\ \A b \in 0 .. R - 1 :
            Cardinality({k \in 1 .. 6 : /\ layout[k].offset <= b
                                        /\ b < layout[k].offset + layout[k].width}) = 1
       /\ GetStackMask(GetStackMapAt(info, 0), info) = [start |-> 0, size |-> info.stack_mask_size]
       /\ \A i \in 0 .. NumRecords - 1 :
            /\ GetStackMapAt(info, i) = i * R
            /\ \A j \in 0 .. NumRecords - 1 :
                 i < j => GetStackMapAt(info, i) + R <= GetStackMapAt(info, j)

\* A table whose six fields all have a different, non-zero size.
FixedRecordLayoutWitness ==
  /\ phase = "sized"
  /\ info.stack_mask_size = 1
  /\ info.number_of_bytes_for_inline_info = 2
  /\ info.number_of_bytes_for_dex_register_map = 1
  /\ info.number_of_bytes_for_dex_pc = 3
  /\ info.number_of_bytes_for_native_pc = 2
  /\ info.number_of_bytes_for_register_mask = 4
  /\ info.stack_map_size = 13

\* C7 as stated: on a table without inline info neither
\* GetInlineDescriptorOffset nor SetInlineDescriptorOffset completes normally.
InlineAccessorsBothFail ==
  (phase = "sized" /\ ~HasInlineInfo(info)) =>
    /\ (last_load.op = "Get" /\ last_load.field = "inline_info")
         => failure # "none"
    /\ (last_store.op = "Set" /\ last_store.field = "inline_info")
         => failure # "none"

\* C7 as amended: on a table without inline info GetInlineDescriptorOffset
\* completes normally and returns kNoInlineInfo; SetInlineDescriptorOffset
\* fails DCHECK(info.HasInlineInfo()) in a debug build, and completes
\* without writing a byte in a build without DCHECKs.
InlineInfoPrecondition ==
  (phase = "sized" /\ ~HasInlineInfo(info)) =>
    /\ (last_load.op = "Get" /\ last_load.field = "inline_info")
         => /\ last_load.result = kNoInlineInfo
            /\ failure # "LoadAt: DCHECK(!check_max)"
    /\ (last_store.op = "Set" /\ last_store.field = "inline_info")
         => IF kIsDebugBuild
            THEN /\ failure = "SetInlineDescriptorOffset: DCHECK(info.HasInlineInfo())"
                 /\ memory = last_store.before
            ELSE /\ failure = "none"
                 /\ memory = last_store.before

\* A debug build, no inline info: the getter returned absent, then the setter
\* aborted on its DCHECK.
InlineInfoPreconditionWitness ==
  /\ phase = "sized"
  /\ ~HasInlineInfo(info)
  /\ kIsDebugBuild
  /\ last_load.op = "Get"
  /\ last_load.field = "inline_info"
  /\ last_load.result = kNoInlineInfo
  /\ last_store.op = "Set"
  /\ last_store.field = "inline_info"
  /\ failure = "SetInlineDescriptorOffset: DCHECK(info.HasInlineInfo())"

\* The number stored in the number_of_bytes bytes at offset, little-endian, as
\* a uint32_t.
StoredNumber(region, number_of_bytes, offset) ==
  LET byte(k) == IF k < number_of_bytes THEN region[offset + k] ELSE 0
      top == byte(3)
  IN byte(0) + 256 * byte(1) + 65536 * byte(2)
       + 16777216 * (IF top >= 128 THEN top - 256 ELSE top)

\* C8: GetInlineDescriptorOffset returns kNoInlineInfo exactly when the table
\* has no inline info or the stored field is the all-ones pattern of its
\* width; GetDexRegisterMapOffset returns kNoDexRegisterMap exactly when the
\* stored field is the all-ones pattern; otherwise each returns the stored
\* number; neither fails a check.
AbsenceIsData ==
  phase = "sized" =>
    /\ \A field \in OffsetFields : GetCheck(info, field) = "none"
    /\ failure \notin {"LoadAt: DCHECK(!check_max)",
                       "LoadAt: DCHECK_EQ(number_of_bytes, 4u)"}
    /\ last_load.op = "Get" =>
         LET absent == \/ (last_load.field = "inline_info" /\ ~HasInlineInfo(info))
                       \/ AllBytesFF(memory, last_load.number_of_bytes,
                                     GetStackMapAt(info, 0) + last_load.offset)
         IN /\ last_load.result = kNoInlineInfo <=> absent
            /\ last_load.result = kNoDexRegisterMap <=> absent
            /\ ~absent => last_load.result
                            = StoredNumber(memory, last_load.number_of_bytes,
                                           GetStackMapAt(info, 0) + last_load.offset)

\* The variable-map offset was read as absent from a 2-byte field holding
\* 0xFFFF, on a table with inline info.
AbsenceIsDataWitness ==
  /\ phase = "sized"
  /\ HasInlineInfo(info)
  /\ last_store.op = "Set"
  /\ last_store.value = kNoDexRegisterMap
  /\ last_load.op = "Get"
  /\ last_load.field = "dex_register_map"
  /\ last_load.number_of_bytes = 2
  /\ last_load.result = kNoDexRegisterMap

----------------------------------------------------------------------------
(* SpecMap: locations of the variables of one variable map are resolved    *)
(* against a catalog.                                                      *)

\* The variable maps over n variables: any live pattern, and any catalog
\* index for each live variable.
DexRegisterMaps(n, number_of_entries) ==
  UNION { { [live |-> live, entries |-> entries] :
              entries \in [1 .. Cardinality({r \in 1 .. n : live[r]})
                             -> 0 .. number_of_entries - 1] } :
          live \in [1 .. n -> BOOLEAN] }

InitMap ==
  /\ kIsDebugBuild \in BOOLEAN
  /\ failure = "none"
  /\ phase = "map"
  /\ catalog = LocationCatalog
  /\ \E n \in 1 .. MaxDexRegisters :
       /\ info = [number_of_dex_registers |-> n, catalog |-> catalog]
       /\ dex_register_map \in DexRegisterMaps(n, Len(catalog))
  /\ this_stack_map = 0
  /\ memory = <<>>
  /\ last_store = NoStore
  /\ last_load = NoLoad
  /\ stored = <<>>
  /\ nops = 0
  /\ trace = NoTrace

MapGetDexRegisterLocation ==
  /\ phase = "map"
  /\ \E dex_register_number \in 0 .. info.number_of_dex_registers - 1 :
       LET got == GetDexRegisterLocation(dex_register_map, dex_register_number,
                                         info.number_of_dex_registers, info)
       IN trace' = [op |-> "GetDexRegisterLocation",
                    dex_register_number |-> dex_register_number,
                    location |-> got.location,
                    kind |-> got.location.kind,
                    entries_read |-> got.entries_read]
  /\ UNCHANGED <<kIsDebugBuild, failure, phase, info, this_stack_map, memory,
                 last_store, last_load, stored, nops, dex_register_map, catalog>>

MapGetLocationInternalKind ==
  /\ phase = "map"
  /\ \E dex_register_number \in 0 .. info.number_of_dex_registers - 1 :
       LET got == GetLocationInternalKind(dex_register_map, dex_register_number,
                                          info.number_of_dex_registers, info)
       IN trace' = [op |-> "GetLocationInternalKind",
                    dex_register_number |-> dex_register_number,
                    location |-> NoLocation,
                    kind |-> got.kind,
                    entries_read |-> got.entries_read]
  /\ UNCHANGED <<kIsDebugBuild, failure, phase, info, this_stack_map, memory,
                 last_store, last_load, stored, nops, dex_register_map, catalog>>

NextMap == MapGetDexRegisterLocation \/ MapGetLocationInternalKind

SpecMap == InitMap /\ [][NextMap]_vars

\* C6: for a dead variable the result is "no location" and no catalog entry
\* is read; for a live variable v the result is the catalog entry whose index
\* is the k-th stored field, k being the number of live bits below v; the map
\* stores exactly one field per live variable.
VariableLocationResolution ==
  phase = "map" =>
    LET live == dex_register_map.live
        fields == dex_register_map.entries
    IN /\ Len(fields) = Cardinality({r \in DOMAIN live : live[r]})
       /\ trace.op \in {"GetDexRegisterLocation", "GetLocationInternalKind"} =>
            LET v == trace.dex_register_number
                k == Cardinality({r \in 0 .. v - 1 : live[r + 1]})
            IN IF ~live[v + 1]
               THEN /\ trace.kind = "kNone"
                    /\ trace.location = NoLocation
                    /\ trace.entries_read = {}
               ELSE /\ trace.entries_read = {fields[k + 1]}
                    /\ trace.kind = catalog[fields[k + 1] + 1].kind
                    /\ trace.op = "GetDexRegisterLocation"
                         => trace.location = catalog[fields[k + 1] + 1]

\* Live pattern [dead, live, dead, live, live] with stored fields 0, 1, 2:
\* variable 4 resolved to the third stored field.
VariableLocationResolutionWitness ==
  /\ phase = "map"
  /\ dex_register_map.live = <<FALSE, TRUE, FALSE, TRUE, TRUE>>
  /\ dex_register_map.entries = <<0, 1, 2>>
  /\ trace.op = "GetDexRegisterLocation"
  /\ trace.dex_register_number = 4
  /\ trace.location = [kind |-> "kConstant", value |-> 7]

----------------------------------------------------------------------------
(* Spec: the records of one table are written and read through the         *)
(* accessors of a StackMap viewing record this_stack_map, and dumped.      *)

\* The tables: with and without a stack mask, inline info and dex pcs; the
\* native pc takes 3 bytes, the register mask 4, the variable-map offset 1,
\* the inline-info offset 0 or 2, the dex pc 0 or 2.
RecordTables ==
  { CodeInfo(stack_mask_size, inline_info_size, 3, dex_pc_max, 70000, 2147483647) :
      stack_mask_size \in StackMaskSizes, inline_info_size \in {0, 300},
      dex_pc_max \in {0, 300} }

\* The variable maps a record's offset may lead to: two variables.
RecordMaps ==
  { [live |-> <<FALSE, FALSE>>, entries |-> <<>>],
    [live |-> <<FALSE, TRUE>>, entries |-> <<2>>],
    [live |-> <<TRUE, TRUE>>, entries |-> <<1, 0>>] }

\* The declared maximum of a plain field.
FieldMaximum(code_info, field) ==
  CASE field = "dex_pc" -> code_info.dex_pc_max
    [] field = "native_pc" -> code_info.native_pc_max
    [] field = "register_mask" -> code_info.register_mask_max

\* value (a uint32_t) is within the declared maximum of the field, or is the
\* absent sentinel of an offset field.
WithinMaxima(code_info, field, value) ==
  IF field \in OffsetFields
  THEN value = kNoDexRegisterMap
       \/ (0 <= value /\ value < RealOffsetLimit(code_info, field))
  ELSE 0 <= value /\ value <= FieldMaximum(code_info, field)

\* The values passed to a setter: 0, 1, the largest declared value, the
\* all-ones pattern of the field's width, and the sentinel for offsets.
FieldValues(code_info, field) ==
  LET w == FieldWidth(code_info, field)
      ones == IF w >= 1 THEN {AllOnes(w)} ELSE {}
  IN IF field \in OffsetFields
     THEN {0, kNoDexRegisterMap} \cup ones
          \cup {v \in {RealOffsetLimit(code_info, field) - 1} : v >= 0}
     ELSE {0, 1, FieldMaximum(code_info, field)} \cup ones

StackMaskBits(code_info) == 0 .. 8 * GetStackMaskSize(code_info) - 1

\* The bits stored into: the first and the last of the stack mask.
StoredBitOffsets(code_info) ==
  {b \in StackMaskBits(code_info) : b = 0 \/ b = 8 * GetStackMaskSize(code_info) - 1}

NothingStored(code_info) ==
  [ field |-> [f \in Fields |-> [set |-> FALSE, value |-> 0]],
    bit |-> [b \in StackMaskBits(code_info) |-> [set |-> FALSE, value |-> 0]],
    representable |-> TRUE,
    encodable |-> TRUE,
    within_maxima |-> TRUE,
    inline_guarded |-> TRUE ]

Init ==
  /\ kIsDebugBuild \in BOOLEAN
  /\ failure = "none"
  /\ phase = "records"
  /\ info \in RecordTables
  /\ this_stack_map \in 0 .. NumRecords - 1
  /\ memory = [i \in 0 .. NumRecords * StackMapSize(info) - 1 |-> 0]
  /\ last_store = NoStore
  /\ last_load = NoLoad
  /\ stored = NothingStored(info)
  /\ nops = 0
  /\ catalog = GetDexRegisterLocationCatalog(info)
  /\ dex_register_map = NoMap
  /\ trace = NoTrace

\* One of the five setters is called on the record.  In a debug build a
\* failing DCHECK aborts before anything is written.
RecordSet ==
  /\ phase = "records"
  /\ failure = "none"
  /\ nops < MaxOps
  /\ \E field \in Fields :
    \E value \in FieldValues(info, field) :
      LET w == FieldWidth(info, field)
          aborts == kIsDebugBuild /\ SetCheck(info, field, value) # "none"
      IN /\ nops' = nops + 1
         /\ last_store' = [op |-> "Set", record |-> this_stack_map, field |-> field,
                           number_of_bytes |-> w,
                           offset |-> FieldOffset(info, field),
                           value |-> value, before |-> memory]
         /\ last_load' = NoLoad
         /\ trace' = [op |-> "Set", loads |-> {},
                      stores |-> SetStoreAtCalls(info, field, value, kIsDebugBuild)]
         /\ failure' = IF aborts THEN SetCheck(info, field, value) ELSE "none"
         /\ memory' = IF aborts THEN memory
                      ELSE Set(memory, GetStackMapAt(info, this_stack_map), info,
                               field, value)
         /\ stored' =
              [stored EXCEPT
                 !.field[field] = IF aborts THEN @ ELSE [set |-> TRUE, value |-> value],
                 !.representable = @ /\ Representable(value, w),
                 !.encodable = @ /\ (Representable(value, w)
                                     \/ (field \in OffsetFields
                                         /\ value = kNoDexRegisterMap)),
                 !.within_maxima = @ /\ WithinMaxima(info, field, value),
                 !.inline_guarded = @ /\ (field = "inline_info" => HasInlineInfo(info))]
  /\ UNCHANGED <<kIsDebugBuild, phase, info, this_stack_map, dex_register_map, catalog>>

\* GetStackMask(info).StoreBit(bit_offset, value) on the record.
RecordStoreBit ==
  /\ phase = "records"
  /\ failure = "none"
  /\ nops < MaxOps
  /\ \E bit_offset \in StoredBitOffsets(info), value \in {0, 1} :
       LET stack_mask == GetStackMask(GetStackMapAt(info, this_stack_map), info)
       IN /\ nops' = nops + 1
          /\ memory' = StoreBit(memory, stack_mask.start, bit_offset, value)
          /\ last_store' = [op |-> "StoreBit", record |-> this_stack_map,
                            field |-> "stack_mask", number_of_bytes |-> 0,
                            offset |-> bit_offset, value |-> value,
                            before |-> memory]
          /\ stored' = [stored EXCEPT !.bit[bit_offset] = [set |-> TRUE, value |-> value]]
  /\ last_load' = NoLoad
  /\ trace' = [op |-> "StoreBit", loads |-> {}, stores |-> {}]
  /\ UNCHANGED <<kIsDebugBuild, failure, phase, info, this_stack_map,
                 dex_register_map, catalog>>

\* One of the five getters is called on the record.
RecordGet ==
  /\ phase = "records"
  /\ failure = "none"
  /\ \E field \in Fields :
       /\ last_load' = [op |-> "Get", record |-> this_stack_map, field |-> field,
                        number_of_bytes |-> FieldWidth(info, field),
                        offset |-> FieldOffset(info, field),
                        check_max |-> field \in OffsetFields,
                        result |-> Get(memory, GetStackMapAt(info, this_stack_map),
                                       info, field)]
       /\ trace' = [op |-> "Get", loads |-> GetLoadAtCalls(info, field), stores |-> {}]
       /\ failure' = IF kIsDebugBuild THEN GetCheck(info, field) ELSE "none"
  /\ UNCHANGED <<kIsDebugBuild, phase, info, this_stack_map, memory, last_store,
                 stored, nops, dex_register_map, catalog>>

\* StackMap::Dump is called on the record; map is the variable map the
\* record's offset leads to (GetDexRegisterMapOf).
RecordDump ==
  /\ phase = "records"
  /\ failure = "none"
  /\ \E map \in RecordMaps :
       LET dump == StackMapDump(memory, GetStackMapAt(info, this_stack_map),
                                info, Len(map.live), map)
       IN trace' = [op |-> "Dump", stores |-> {}, map |-> map, dump |-> dump,
                    loads |-> dump.loads]
  /\ failure' = IF kIsDebugBuild THEN StackMapDumpCheck(info) ELSE "none"
  /\ last_load' = NoLoad
  /\ UNCHANGED <<kIsDebugBuild, phase, info, this_stack_map, memory, last_store,
                 stored, nops, dex_register_map, catalog>>

Next == RecordSet \/ RecordStoreBit \/ RecordGet \/ RecordDump

Spec == Init /\ [][Next]_vars

\* What the getter of a field returns after value was stored into it: the two
\* offset getters read the all-ones pattern of the width as absent, and
\* GetInlineDescriptorOffset is absent on a table without inline info.
ReadBack(code_info, field, value) ==
  IF field = "inline_info" /\ ~HasInlineInfo(code_info) THEN kNoInlineInfo
  ELSE IF field \in OffsetFields /\ value = AllOnes(FieldWidth(code_info, field))
  THEN kNoDexRegisterMap
  ELSE value

\* The bytes of the table the last write may have changed.
WrittenBytes ==
  LET start == GetStackMapAt(info, last_store.record)
  IN IF last_store.op = "Set"
     THEN {i \in DOMAIN memory :
             /\ start + last_store.offset <= i
             /\ i < start + last_store.offset + last_store.number_of_bytes}
     ELSE IF last_store.op = "StoreBit"
     THEN {start + ComputeStackMapStackMaskOffset(info) + (last_store.offset \div 8)}
     ELSE {}

\* The last write changed nothing outside the bytes of its field (of one bit
\* for a bit store): the other fields and stack-mask bits of the record read
\* as before, and the other records are unchanged.
WriteFrame ==
  last_store.op \in {"Set", "StoreBit"} =>
    LET start == GetStackMapAt(info, this_stack_map)
        before == last_store.before
    IN /\ Cardinality(WrittenBytes) =
            (IF last_store.op = "Set" THEN last_store.number_of_bytes ELSE 1)
       /\ \A i \in DOMAIN memory : i \notin WrittenBytes => memory[i] = before[i]
       /\ \A field \in Fields \ {last_store.field} :
            Get(memory, start, info, field) = Get(before, start, info, field)
       /\ \A b \in StackMaskBits(info) :
            (last_store.op = "Set" \/ b # last_store.offset) =>
              LoadBit(memory, GetStackMask(start, info).start, b)
                = LoadBit(before, GetStackMask(start, info).start, b)

StoredBitsReadBack ==
  \A b \in StackMaskBits(info) :
    stored.bit[b].set =>
      LoadBit(memory, GetStackMask(GetStackMapAt(info, this_stack_map), info).start, b)
        = stored.bit[b].value

\* C9 as stated: after writes of values representable in their field's
\* width, every getter returns the value last stored into its field, and
\* every write changed only the bytes of its field.
FieldIndependenceAsStated ==
  (phase = "records" /\ stored.representable) =>
    /\ \A field \in Fields :
         stored.field[field].set =>
           Get(memory, GetStackMapAt(info, this_stack_map), info, field)
             = stored.field[field].value
    /\ StoredBitsReadBack
    /\ WriteFrame

\* C9: after any sequence of writes, each of a value representable in its
\* field's width or of the absent sentinel into an offset field, every getter
\* returns the value last stored into its field, except that the two offset
\* getters return absent (0xFFFFFFFF) when the value stored is the all-ones
\* pattern of the field's width and GetInlineDescriptorOffset returns absent
\* on a table without inline info; every stack-mask bit reads as last stored;
\* every write changed only the bytes [fieldOffset, fieldOffset + width) of
\* its field in its record.
FieldIndependence ==
  (phase = "records" /\ stored.encodable) =>
    /\ \A field \in Fields :
         stored.field[field].set =>
           Get(memory, GetStackMapAt(info, this_stack_map), info, field)
             = ReadBack(info, field, stored.field[field].value)
    /\ \A field \in Fields :
         (last_load.op = "Get" /\ last_load.field = field /\ stored.field[field].set) =>
           last_load.result = ReadBack(info, field, stored.field[field].value)
    /\ StoredBitsReadBack
    /\ WriteFrame

\* The 3-byte native pc was written after the variable-map offset, and the
\* getter of the variable-map offset then returned the offset stored.
FieldIndependenceWitness ==
  /\ phase = "records"
  /\ stored.encodable
  /\ nops = 2
  /\ last_store.op = "Set"
  /\ last_store.field = "native_pc"
  /\ last_store.number_of_bytes = 3
  /\ last_store.value = 70000
  /\ stored.field["dex_register_map"].set
  /\ stored.field["dex_register_map"].value = 2
  /\ last_load.op = "Get"
  /\ last_load.field = "dex_register_map"
  /\ last_load.result = 2

\* What holds of the calls made by the last operation: no LoadAt with the
\* sentinel check at width 0, no StoreAt of a non-zero value at width 0, and
\* a dump resolves the variable map only when the record's offset is not
\* absent and a catalog index only for live variables.
NoAssertionReached ==
  /\ failure = "none"
  /\ NumberOfBytesForDexRegisterMap(info) >= 1
  /\ trace.op \in {"Set", "StoreBit", "Get", "Dump"} =>
       /\ \A c \in trace.loads : ~(c.number_of_bytes = 0 /\ c.check_max)
       /\ \A c \in trace.stores : c.number_of_bytes = 0 => c.value = 0
  /\ trace.op = "Dump" =>
       /\ trace.dump.map_resolved <=>
            trace.dump.dex_register_map_offset # kNoDexRegisterMap
       /\ ~trace.dump.map_resolved => trace.dump.registers = <<>>
       /\ \A i \in DOMAIN trace.dump.registers :
            /\ IsDexRegisterLive(trace.map,
                                 trace.dump.registers[i].dex_register_num)
            /\ trace.dump.registers[i].location_catalog_entry_index
                 # kNoLocationEntryIndex

\* C10 as stated: when every value written is within the declared maxima or
\* is the absent sentinel of an offset field, no DCHECK fails under any
\* sequence of accessor and Dump calls.
AssertionValidityAsStated ==
  (phase = "records" /\ stored.within_maxima) => NoAssertionReached

\* C10: when every value written is within the declared maxima or is the
\* absent sentinel of an offset field, and SetInlineDescriptorOffset is
\* called only on tables with inline info, no DCHECK of LoadAt, StoreAt or
\* SetInlineDescriptorOffset fails under any sequence of accessor and Dump
\* calls: the variable-map-offset width is at least 1, no getter loads with
\* the sentinel check at width 0, StoreAt at width 0 only receives 0, and
\* Dump resolves a variable map only when the record's offset is not absent
\* and a catalog index only for live variables.
AssertionValidity ==
  (phase = "records" /\ stored.within_maxima /\ stored.inline_guarded)
    => NoAssertionReached

\* A debug build dumped a record of a table without inline info and without
\* dex pcs, after 0 was stored into the 0-byte dex pc and absent into the
\* variable-map offset: no map was resolved and nothing failed.
AssertionValidityWitness ==
  /\ phase = "records"
  /\ kIsDebugBuild
  /\ failure = "none"
  /\ ~HasInlineInfo(info)
  /\ NumberOfBytesForDexPc(info) = 0
  /\ stored.within_maxima
  /\ stored.inline_guarded
  /\ stored.field["dex_pc"].set
  /\ stored.field["dex_register_map"].set
  /\ stored.field["dex_register_map"].value = kNoDexRegisterMap
  /\ trace.op = "Dump"
  /\ ~trace.dump.map_resolved
  /\ trace.dump.inline_info_offset = kNoInlineInfo

====
